---- MODULE Spec2Model ----
(***************************************************************************)
(* Model of main.py: the changelog-to-RSS pipeline.                        *)
(*   fetch_changelog_blame -> parse_changelog -> versions.sort ->          *)
(*   generate_rss -> feed.xml                                              *)
(* Python strings are sequences of one-character strings, so that          *)
(* splitlines, re.match, join, strip and string comparison are computed    *)
(* character by character as the interpreter computes them.                *)
(***************************************************************************)
EXTENDS Integers, Sequences, FiniteSets, Bags, TLC

VARIABLES
    pc,             \* position of the process in main / the function it is in
    GITHUB_TOKEN,   \* TRUE iff the environment variable is set and non-empty
    network_calls,  \* number of requests.post calls made so far
    response,       \* the HTTP response of requests.post (or NoResponse)
    repo_data,      \* data["data"]["repository"]: [text, ranges]
    lines,          \* text.splitlines()
    blame_ranges,   \* repo_data["ref"]["target"]["blame"]["ranges"]
    r,              \* 1-based position of the for loop over blame_ranges
    line_data_map,  \* dict: zero-based line index -> [date, oid]
    i,              \* zero-based position of the for loop over lines
    current_version,
    current_desc,
    current_date,
    current_oid,
    versions,       \* the list of version records
    entries,        \* the FeedGenerator's list of entries, first to last
    feed_xml,       \* the content of the file feed.xml
    stdout,         \* what was printed on standard output
    stderr,         \* what was written on the error stream
    exit_code,      \* the process's exit status (NotExited while running)
    v,              \* 1-based position of the for loop over versions
    line,           \* a line handed to re.match (the matcher on its own)
    version_match   \* the result of re.match on that line

vars == <<pc, GITHUB_TOKEN, network_calls, response, repo_data, lines,
          blame_ranges, r, line_data_map, i, current_version, current_desc,
          current_date, current_oid, versions, entries, feed_xml, stdout,
          stderr, exit_code, v, line, version_match>>

(***************************************************************************)
(* Bounds of the model.                                                    *)
(***************************************************************************)
MaxLineLen == 7     \* most characters typed into a line handed to the matcher
MaxIndexLines == 3  \* longest document when the index is built from any ranges
MaxRanges == 3      \* most blame ranges when the index is built from any ranges
MaxSegLines == 4    \* longest document handed to the segmenter
MaxFeedLines == 3   \* longest document of a whole run

(***************************************************************************)
(* Python values.                                                          *)
(***************************************************************************)
\* None, of the same shape as a string so that it compares with one.
None == <<"None">>

\* bool(x) of a str-or-None: None and "" are falsy.
Truthy(x) == x # None /\ x # <<>>

\* The characters \s and str.strip() take for whitespace (those of the model).
Whitespace == {" ", "\t", "\n"}

\* The characters \d matches (those of the model).
Digits == {"0", "1", "2", "3", "4", "5", "6", "7", "8", "9"}

\* ord(c) of the characters that occur in dates.
CharOrd(c) ==
    CASE c = "+" -> 43 [] c = "-" -> 45
      [] c = "0" -> 48 [] c = "1" -> 49 [] c = "2" -> 50 [] c = "3" -> 51
      [] c = "4" -> 52 [] c = "5" -> 53 [] c = "6" -> 54 [] c = "7" -> 55
      [] c = "8" -> 56 [] c = "9" -> 57 [] c = ":" -> 58
      [] c = "T" -> 84 [] c = "Z" -> 90

\* a < b on Python strings: lexicographic by code point, "" first.
RECURSIVE StrLessFrom(_, _, _)
StrLessFrom(a, b, n) ==
    IF n > Len(b) THEN FALSE
    ELSE IF n > Len(a) THEN TRUE
    ELSE IF a[n] = b[n] THEN StrLessFrom(a, b, n + 1)
    ELSE CharOrd(a[n]) < CharOrd(b[n])

StrLess(a, b) == StrLessFrom(a, b, 1)

\* The number of consecutive characters of s from position from that are in S.
RECURSIVE RunLen(_, _, _)
RunLen(s, from, S) ==
    IF from <= Len(s) /\ s[from] \in S THEN 1 + RunLen(s, from + 1, S) ELSE 0

\* The same, backwards from position from.
RECURSIVE RunLenBack(_, _, _)
RunLenBack(s, from, S) ==
    IF from >= 1 /\ s[from] \in S THEN 1 + RunLenBack(s, from - 1, S) ELSE 0

\* text.splitlines(): a line ends at each "\n"; no empty last line.
RECURSIVE SplitLinesFrom(_, _, _, _)
SplitLinesFrom(t, k, cur, acc) ==
    IF k > Len(t) THEN (IF cur = <<>> THEN acc ELSE Append(acc, cur))
    ELSE IF t[k] = "\n" THEN SplitLinesFrom(t, k + 1, <<>>, Append(acc, cur))
    ELSE SplitLinesFrom(t, k + 1, Append(cur, t[k]), acc)

SplitLines(t) == SplitLinesFrom(t, 1, <<>>, <<>>)

\* "\n".join(ls)
RECURSIVE JoinLines(_)
JoinLines(ls) ==
    IF ls = <<>> THEN <<>>
    ELSE IF Len(ls) = 1 THEN ls[1]
    ELSE ls[1] \o <<"\n">> \o JoinLines(Tail(ls))

\* Strip as rstrip(): only trailing whitespace removed.
StripRight(s) == SubSeq(s, 1, Len(s) - RunLenBack(s, Len(s), Whitespace))

\* s.strip(): leading and trailing whitespace removed.
Strip(s) ==
    LET lead == RunLen(s, 1, Whitespace)
        trail == RunLenBack(s, Len(s), Whitespace)
    IN IF lead = Len(s) THEN <<>> ELSE SubSeq(s, lead + 1, Len(s) - trail)

\* VersionMatch with \s in place of \s+: exactly one whitespace character.
VersionMatchOneSpace(l) ==
    LET p1 == 4
        d1 == RunLen(l, p1, Digits)
        q1 == p1 + d1
        d2 == RunLen(l, q1 + 1, Digits)
        q2 == q1 + 1 + d2
        d3 == RunLen(l, q2 + 1, Digits)
    IN IF /\ Len(l) >= 3 /\ l[1] = "#" /\ l[2] = "#" /\ l[3] \in Whitespace
          /\ d1 >= 1 /\ q1 <= Len(l) /\ l[q1] = "."
          /\ d2 >= 1 /\ q2 <= Len(l) /\ l[q2] = "."
          /\ d3 >= 1
       THEN SubSeq(l, p1, q2 + d3)
       ELSE None

\* re.match(r"^##\s+(\d+\.\d+\.\d+)", l): group(1) of the match, or None.
\* Each greedy run is followed by a character outside its class, so
\* backtracking never finds a match the greedy runs miss.
VersionMatch(l) ==
    LET ws == RunLen(l, 3, Whitespace)
        p1 == 3 + ws
        d1 == RunLen(l, p1, Digits)
        q1 == p1 + d1
        d2 == RunLen(l, q1 + 1, Digits)
        q2 == q1 + 1 + d2
        d3 == RunLen(l, q2 + 1, Digits)
    IN IF /\ Len(l) >= 2 /\ l[1] = "#" /\ l[2] = "#"
          /\ ws >= 1
          /\ d1 >= 1 /\ q1 <= Len(l) /\ l[q1] = "."
          /\ d2 >= 1 /\ q2 <= Len(l) /\ l[q2] = "."
          /\ d3 >= 1
       THEN SubSeq(l, p1, q2 + d3)
       ELSE None

\* dict d with every key of K set to val.
DictSet(d, K, val) == [k \in (DOMAIN d) \cup K |-> IF k \in K THEN val ELSE d[k]]

\* The empty dict.
EmptyDict == [k \in {} |-> None]

(***************************************************************************)
(* Configuration (module level of main.py) and the URLs built from it.     *)
(***************************************************************************)
REPO_OWNER == "anthropics"
REPO_NAME == "claude-code"
FILE_PATH == "CHANGELOG.md"
BRANCH == "main"

\* f"https://github.com/{REPO_OWNER}/{REPO_NAME}/blob/{oid}/{FILE_PATH}"
CommitUrl(oid) ==
    <<"https://github.com/", REPO_OWNER, "/", REPO_NAME, "/blob/">>
        \o oid \o <<"/", FILE_PATH>>

\* f"https://github.com/{REPO_OWNER}/{REPO_NAME}/releases/tag/v{version}"
ReleaseUrl(version) ==
    <<"https://github.com/", REPO_OWNER, "/", REPO_NAME, "/releases/tag/v">>
        \o version

\* The feed-level metadata set on the FeedGenerator.
FeedChannel ==
    [title |-> "Claude Code Changelog (Unofficial)",
     link |-> <<"https://github.com/", REPO_OWNER, "/", REPO_NAME, "/blob/",
                BRANCH, "/", FILE_PATH>>,
     description |->
         "Unofficial RSS feed for Claude Code changelog, parsed from CHANGELOG.md",
     language |-> "en"]

(***************************************************************************)
(* Messages the program prints.                                            *)
(***************************************************************************)
MsgFetching == "Fetching changelog and blame data..."
MsgParsing == "Parsing changelog..."
MsgFound == "Found {len(versions)} versions."
MsgGenerating == "Generating RSS feed..."
MsgGenerated == "Generated feed.xml"
MsgDone == "Done!"
MsgNoToken == "Error: GITHUB_TOKEN environment variable is not set."
MsgBadStatus == "Error fetching data: {response.status_code}"
MsgResponseText == "{response.text}"
MsgGraphQLErrors == "GraphQL Errors: {data['errors']}"

ProgressMessages ==
    {MsgFetching, MsgParsing, MsgFound, MsgGenerating, MsgGenerated, MsgDone}

ErrorMessages == {MsgNoToken, MsgBadStatus, MsgResponseText, MsgGraphQLErrors}

(***************************************************************************)
(* Inputs: what the environment and the GitHub service can supply.         *)
(***************************************************************************)
\* committedDate values: ISO-8601 strings as GitHub returns them.
DateJan1 ==
    <<"2", "0", "2", "4", "-", "0", "1", "-", "0", "1", "T",
      "0", "0", ":", "0", "0", ":", "0", "0", "Z">>

DateJan2 ==
    <<"2", "0", "2", "4", "-", "0", "1", "-", "0", "2", "T",
      "0", "0", ":", "0", "0", ":", "0", "0", "Z">>

\* The commits blame ranges refer to: {committedDate, oid}.
Commits ==
    {[committedDate |-> DateJan2, oid |-> <<"a", "b", "c">>],
     [committedDate |-> DateJan1, oid |-> <<"d", "e", "f">>]}

\* Lines of a changelog.
LineHeaderA == <<"#", "#", " ", "2", ".", "0", ".", "7", "4">>
LineHeaderB == <<"#", "#", " ", "2", ".", "0", ".", "7", "3", " ", "(", "x", ")">>
LineBody == <<"F", "i", "x", " ", "X">>
LineBlank == <<>>

SegLineSet == {LineHeaderA, LineHeaderB, LineBody, LineBlank}
FeedLineSet == {LineHeaderA, LineHeaderB, LineBody}

\* The sequences over S of length at most n.
SeqsUpTo(S, n) == UNION {[1..k -> S] : k \in 0..n}

\* A document: each of its lines followed by a line break.
RECURSIVE TextOf(_)
TextOf(ls) == IF ls = <<>> THEN <<>> ELSE ls[1] \o <<"\n">> \o TextOf(Tail(ls))

\* Blame ranges over a document of n lines: 1-based, inclusive, start <= end.
RangesOver(n) ==
    {[startingLine |-> a, endingLine |-> b, commit |-> c] :
        a \in 1..n, b \in 1..n, c \in Commits} \ 
    {rg \in [startingLine : 1..n, endingLine : 1..n, commit : Commits] :
        rg.startingLine > rg.endingLine}

\* One-line blame ranges, in line order, for the lines of D.
RECURSIVE LineRanges(_, _)
LineRanges(D, g) ==
    IF D = {} THEN <<>>
    ELSE LET a == CHOOSE x \in D : \A y \in D : x <= y
         IN <<[startingLine |-> a, endingLine |-> a, commit |-> g[a]]>>
                \o LineRanges(D \ {a}, g)

\* Every blame of a document of Len(C) lines in which each range is one line
\* and line a, when it is attributed, is attributed to a commit of C[a].
LineBlames(C) ==
    {LineRanges(DOMAIN g, g) :
        g \in UNION {{f \in [D -> Commits] : \A a \in D : f[a] \in C[a]} :
                       D \in SUBSET (1..Len(C))}}

\* n lines, any commit for any line.
AnyCommit(n) == [a \in 1..n |-> Commits]

\* n lines, odd lines last changed by one commit, even lines by the other.
AlternateCommit(n) ==
    [a \in 1..n |->
        {c \in Commits : (c.committedDate = DateJan2) <=> (a % 2 = 1)}]

\* data["data"]["repository"]: a document and its blame ranges.
Repository(ls, rs) == [text |-> TextOf(ls), ranges |-> rs]

NoRepository == [text |-> <<>>, ranges |-> <<>>]
NoResponse == [status_code |-> 0, errors |-> FALSE, repository |-> NoRepository]

\* The responses of requests.post that carry no repository: a status other
\* than 200, or an "errors" payload.
OkResponse(d) == [status_code |-> 200, errors |-> FALSE, repository |-> d]

FailedResponses ==
    {[status_code |-> s, errors |-> e, repository |-> NoRepository] :
        s \in {200, 401, 502}, e \in BOOLEAN} \ {OkResponse(NoRepository)}

\* feed.xml before the run: missing, or left by an earlier run.
NoFile == [kind |-> "no file"]
OldFile == [kind |-> "feed of an earlier run"]
NotExited == -1

(***************************************************************************)
(* Dates: datetime.fromisoformat(date.replace("Z", "+00:00")).             *)
(***************************************************************************)
\* s.replace("Z", "+00:00")
RECURSIVE ReplaceZ(_)
ReplaceZ(s) ==
    IF s = <<>> THEN <<>>
    ELSE IF s[1] = "Z" THEN <<"+", "0", "0", ":", "0", "0">> \o ReplaceZ(Tail(s))
    ELSE <<s[1]>> \o ReplaceZ(Tail(s))

\* int(s[a..b]) of decimal digits (positions 1-based, inclusive).
RECURSIVE DecimalAt(_, _, _)
DecimalAt(s, a, b) ==
    IF a > b THEN 0 ELSE 10 * DecimalAt(s, a, b - 1) + (CharOrd(s[b]) - 48)

\* datetime.fromisoformat("YYYY-MM-DDTHH:MM:SS+HH:MM"): a timezone-aware datetime.
FromIsoFormat(s) ==
    [year |-> DecimalAt(s, 1, 4), month |-> DecimalAt(s, 6, 7),
     day |-> DecimalAt(s, 9, 10), hour |-> DecimalAt(s, 12, 13),
     minute |-> DecimalAt(s, 15, 16), second |-> DecimalAt(s, 18, 19),
     utcoffset |-> (IF s[20] = "-" THEN -1 ELSE 1)
                     * (60 * DecimalAt(s, 21, 22) + DecimalAt(s, 24, 25))]

\* An entry on which pubDate was never set.
NoPubDate ==
    [year |-> 0, month |-> 0, day |-> 0, hour |-> 0, minute |-> 0,
     second |-> 0, utcoffset |-> 0]

(***************************************************************************)
(* versions.sort(key=lambda x: x['date'] or "")                            *)
(***************************************************************************)
\* The sort key of a version record.
SortKey(x) == IF Truthy(x.date) THEN x.date ELSE <<>>

\* InsertSorted that puts x before the elements of equal key: not stable.
InsertSortedBeforeEqual(s, x) ==
    LET after == {k \in 1..Len(s) : ~StrLess(SortKey(s[k]), SortKey(x))}
        at == IF after = {} THEN Len(s) + 1
              ELSE CHOOSE k \in after : \A j \in after : k <= j
    IN SubSeq(s, 1, at - 1) \o <<x>> \o SubSeq(s, at, Len(s))

\* x put into the sorted list s after every element whose key is not greater.
InsertSorted(s, x) ==
    LET after == {k \in 1..Len(s) : StrLess(SortKey(x), SortKey(s[k]))}
        at == IF after = {} THEN Len(s) + 1
              ELSE CHOOSE k \in after : \A j \in after : k <= j
    IN SubSeq(s, 1, at - 1) \o <<x>> \o SubSeq(s, at, Len(s))

\* list.sort: stable, ascending by key.
RECURSIVE SortByDate(_)
SortByDate(s) ==
    IF s = <<>> THEN <<>>
    ELSE InsertSorted(SortByDate(SubSeq(s, 1, Len(s) - 1)), s[Len(s)])

(***************************************************************************)
(* main and fetch_changelog_blame                                          *)
(***************************************************************************)
\* sys.exit(status)
Exit(status) == pc' = "exited" /\ exit_code' = status

\* main: the first progress message, then the call of fetch_changelog_blame.
MainStart ==
    /\ pc = "main"
    /\ stdout' = Append(stdout, MsgFetching)
    /\ pc' = "fetch_changelog_blame"
    /\ UNCHANGED <<GITHUB_TOKEN, network_calls, response, repo_data, lines,
                   blame_ranges, r, line_data_map, i, current_version,
                   current_desc, current_date, current_oid, versions, entries,
                   feed_xml, stderr, exit_code, v, line, version_match>>

\* if not GITHUB_TOKEN: print(...); sys.exit(1)
FetchNoToken ==
    /\ pc = "fetch_changelog_blame"
    /\ ~GITHUB_TOKEN
    /\ stdout' = Append(stdout, MsgNoToken)
    /\ Exit(1)
    /\ UNCHANGED <<GITHUB_TOKEN, network_calls, response, repo_data, lines,
                   blame_ranges, r, line_data_map, i, current_version,
                   current_desc, current_date, current_oid, versions, entries,
                   feed_xml, stderr, v, line, version_match>>

\* response = requests.post(...)
FetchPost ==
    /\ pc = "fetch_changelog_blame"
    /\ GITHUB_TOKEN
    /\ \E ls \in SeqsUpTo(FeedLineSet, MaxFeedLines) :
          \E rs \in LineBlames(AnyCommit(Len(ls))) :
             \E resp \in FailedResponses \cup {OkResponse(Repository(ls, rs))} :
                response' = resp
    /\ network_calls' = network_calls + 1
    /\ pc' = "response"
    /\ UNCHANGED <<GITHUB_TOKEN, repo_data, lines, blame_ranges, r,
                   line_data_map, i, current_version, current_desc,
                   current_date, current_oid, versions, entries, feed_xml,
                   stdout, stderr, exit_code, v, line, version_match>>

\* if response.status_code != 200: print(...); print(response.text); sys.exit(1)
FetchBadStatus ==
    /\ pc = "response"
    /\ response.status_code # 200
    /\ stdout' = stdout \o <<MsgBadStatus, MsgResponseText>>
    /\ Exit(1)
    /\ UNCHANGED <<GITHUB_TOKEN, network_calls, response, repo_data, lines,
                   blame_ranges, r, line_data_map, i, current_version,
                   current_desc, current_date, current_oid, versions, entries,
                   feed_xml, stderr, v, line, version_match>>

\* FetchGraphQLErrors without the exit: the errors are printed and the run
\* goes on with whatever repository the response holds.
FetchGraphQLErrorsIgnored ==
    /\ pc = "response"
    /\ response.status_code = 200
    /\ response.errors
    /\ stdout' = stdout \o <<MsgGraphQLErrors, MsgParsing>>
    /\ repo_data' = response.repository
    /\ pc' = "parse_changelog"
    /\ UNCHANGED <<GITHUB_TOKEN, network_calls, response, lines, blame_ranges,
                   r, line_data_map, i, current_version, current_desc,
                   current_date, current_oid, versions, entries, feed_xml,
                   stderr, exit_code, v, line, version_match>>

\* if "errors" in data: print(...); sys.exit(1)
FetchGraphQLErrors ==
    /\ pc = "response"
    /\ response.status_code = 200
    /\ response.errors
    /\ stdout' = Append(stdout, MsgGraphQLErrors)
    /\ Exit(1)
    /\ UNCHANGED <<GITHUB_TOKEN, network_calls, response, repo_data, lines,
                   blame_ranges, r, line_data_map, i, current_version,
                   current_desc, current_date, current_oid, versions, entries,
                   feed_xml, stderr, v, line, version_match>>

\* return data["data"]["repository"]; main prints and calls parse_changelog.
FetchReturn ==
    /\ pc = "response"
    /\ response.status_code = 200
    /\ ~response.errors
    /\ repo_data' = response.repository
    /\ stdout' = Append(stdout, MsgParsing)
    /\ pc' = "parse_changelog"
    /\ UNCHANGED <<GITHUB_TOKEN, network_calls, response, lines, blame_ranges,
                   r, line_data_map, i, current_version, current_desc,
                   current_date, current_oid, versions, entries, feed_xml,
                   stderr, exit_code, v, line, version_match>>

(***************************************************************************)
(* parse_changelog                                                         *)
(***************************************************************************)
\* lines = text.splitlines(); blame_ranges = ...; line_data_map = {}
ParseStart ==
    /\ pc = "parse_changelog"
    /\ lines' = SplitLines(repo_data.text)
    /\ blame_ranges' = repo_data.ranges
    /\ line_data_map' = EmptyDict
    /\ r' = 1
    /\ pc' = "index"
    /\ UNCHANGED <<GITHUB_TOKEN, network_calls, response, repo_data, i,
                   current_version, current_desc, current_date, current_oid,
                   versions, entries, feed_xml, stdout, stderr, exit_code, v,
                   line, version_match>>

\* RangePositions with the inclusive endingLine taken for exclusive.
RangePositionsEndExclusive(rg) == (rg.startingLine - 1)..(rg.endingLine - 2)

\* The positions range(start, end) of one blame range: start = startingLine - 1,
\* end = endingLine.
RangePositions(rg) == (rg.startingLine - 1)..(rg.endingLine - 1)

\* One iteration of "for r in blame_ranges": every position of the range is
\* set to the range's {date, oid}.
IndexRange ==
    /\ pc = "index"
    /\ r <= Len(blame_ranges)
    /\ line_data_map' =
          DictSet(line_data_map, RangePositions(blame_ranges[r]),
                  [date |-> blame_ranges[r].commit.committedDate,
                   oid |-> blame_ranges[r].commit.oid])
    /\ r' = r + 1
    /\ UNCHANGED <<pc, GITHUB_TOKEN, network_calls, response, repo_data, lines,
                   blame_ranges, i, current_version, current_desc,
                   current_date, current_oid, versions, entries, feed_xml,
                   stdout, stderr, exit_code, v, line, version_match>>

\* After the loop: versions = []; current_version = None; current_desc = []; ...
IndexDone ==
    /\ pc = "index"
    /\ r > Len(blame_ranges)
    /\ versions' = <<>>
    /\ current_version' = None
    /\ current_desc' = <<>>
    /\ current_date' = None
    /\ current_oid' = None
    /\ i' = 0
    /\ pc' = "segment"
    /\ UNCHANGED <<GITHUB_TOKEN, network_calls, response, repo_data, lines,
                   blame_ranges, r, line_data_map, entries, feed_xml, stdout,
                   stderr, exit_code, v, line, version_match>>

\* The record appended to versions for the version under construction.
CurrentRecord ==
    [version |-> current_version, date |-> current_date, oid |-> current_oid,
     description |-> Strip(JoinLines(current_desc))]

\* AppendCurrent that merges a record into a preceding one of the same version.
AppendCurrentMerged(vs) ==
    IF Truthy(current_version)
          /\ (vs = <<>> \/ vs[Len(vs)].version # current_version)
    THEN Append(vs, CurrentRecord) ELSE vs

\* "if current_version: versions.append({...})"
AppendCurrent(vs) ==
    IF Truthy(current_version) THEN Append(vs, CurrentRecord) ELSE vs

\* HeaderInfo without the else branch: an unattributed header keeps the date
\* and oid of the header before it.
HeaderInfoStale(k) ==
    IF k \in DOMAIN line_data_map THEN line_data_map[k]
    ELSE [date |-> current_date, oid |-> current_oid]

\* line_info = line_data_map.get(k); "if line_info:" (a dict of two keys is
\* never empty): the date and oid of position k, or None for both.
HeaderInfo(k) ==
    IF k \in DOMAIN line_data_map THEN line_data_map[k]
    ELSE [date |-> None, oid |-> None]

\* "if version_match:": the line at position i is a version header.
SegmentHeader ==
    /\ pc = "segment"
    /\ i < Len(lines)
    /\ VersionMatch(lines[i + 1]) # None
    /\ versions' = AppendCurrent(versions)
    /\ current_version' = VersionMatch(lines[i + 1])
    /\ current_desc' = <<>>
    /\ current_date' = HeaderInfo(i).date
    /\ current_oid' = HeaderInfo(i).oid
    /\ i' = i + 1
    /\ UNCHANGED <<pc, GITHUB_TOKEN, network_calls, response, repo_data, lines,
                   blame_ranges, r, line_data_map, entries, feed_xml, stdout,
                   stderr, exit_code, v, line, version_match>>

\* SegmentBody as a symmetric toggle: a blank line ends the version.
SegmentBodyToggle ==
    /\ pc = "segment"
    /\ i < Len(lines)
    /\ VersionMatch(lines[i + 1]) = None
    /\ Truthy(current_version)
    /\ IF lines[i + 1] = <<>>
       THEN /\ versions' = Append(versions, CurrentRecord)
            /\ current_version' = None
            /\ current_desc' = <<>>
       ELSE /\ current_desc' = Append(current_desc, lines[i + 1])
            /\ UNCHANGED <<versions, current_version>>
    /\ i' = i + 1
    /\ UNCHANGED <<pc, GITHUB_TOKEN, network_calls, response, repo_data, lines,
                   blame_ranges, r, line_data_map, current_date, current_oid,
                   entries, feed_xml, stdout, stderr, exit_code, v, line,
                   version_match>>

\* "elif current_version:": the line is appended to the description.
SegmentBody ==
    /\ pc = "segment"
    /\ i < Len(lines)
    /\ VersionMatch(lines[i + 1]) = None
    /\ Truthy(current_version)
    /\ current_desc' = Append(current_desc, lines[i + 1])
    /\ i' = i + 1
    /\ UNCHANGED <<pc, GITHUB_TOKEN, network_calls, response, repo_data, lines,
                   blame_ranges, r, line_data_map, current_version,
                   current_date, current_oid, versions, entries, feed_xml,
                   stdout, stderr, exit_code, v, line, version_match>>

\* Neither branch: a line before the first header.
SegmentSkip ==
    /\ pc = "segment"
    /\ i < Len(lines)
    /\ VersionMatch(lines[i + 1]) = None
    /\ ~Truthy(current_version)
    /\ i' = i + 1
    /\ UNCHANGED <<pc, GITHUB_TOKEN, network_calls, response, repo_data, lines,
                   blame_ranges, r, line_data_map, current_version,
                   current_desc, current_date, current_oid, versions, entries,
                   feed_xml, stdout, stderr, exit_code, v, line, version_match>>

\* "Add the last one" and return versions; main prints the count.
SegmentReturn ==
    /\ pc = "segment"
    /\ i = Len(lines)
    /\ versions' = AppendCurrent(versions)
    /\ stdout' = Append(stdout, MsgFound)
    /\ pc' = "sort"
    /\ UNCHANGED <<GITHUB_TOKEN, network_calls, response, repo_data, lines,
                   blame_ranges, r, line_data_map, i, current_version,
                   current_desc, current_date, current_oid, entries, feed_xml,
                   stderr, exit_code, v, line, version_match>>

(***************************************************************************)
(* main: the sort; generate_rss                                            *)
(***************************************************************************)
\* versions.sort(...); print; generate_rss starts with an empty FeedGenerator.
SortVersions ==
    /\ pc = "sort"
    /\ versions' = SortByDate(versions)
    /\ stdout' = Append(stdout, MsgGenerating)
    /\ entries' = <<>>
    /\ v' = 1
    /\ pc' = "generate_rss"
    /\ UNCHANGED <<GITHUB_TOKEN, network_calls, response, repo_data, lines,
                   blame_ranges, r, line_data_map, i, current_version,
                   current_desc, current_date, current_oid, feed_xml, stderr,
                   exit_code, line, version_match>>

\* FeedEntry whose guid is always the release-tag URL.
FeedEntryGuidRelease(x) ==
    LET link_url == IF Truthy(x.oid) THEN CommitUrl(x.oid)
                    ELSE ReleaseUrl(x.version)
    IN [title |-> <<"v">> \o x.version,
        link |-> link_url,
        description |-> x.description,
        guid |-> [guid |-> ReleaseUrl(x.version), permalink |-> TRUE],
        pubDate |-> IF Truthy(x.date) THEN FromIsoFormat(ReplaceZ(x.date))
                    ELSE NoPubDate]

\* The entry built for one version record.
FeedEntry(x) ==
    LET link_url == IF Truthy(x.oid) THEN CommitUrl(x.oid)
                    ELSE ReleaseUrl(x.version)
    IN [title |-> <<"v">> \o x.version,
        link |-> link_url,
        description |-> x.description,
        guid |-> [guid |-> link_url, permalink |-> TRUE],
        pubDate |-> IF Truthy(x.date) THEN FromIsoFormat(ReplaceZ(x.date))
                    ELSE NoPubDate]

\* fg.add_entry(): feedgen's default order='prepend' puts the new entry first.
AddEntry(es, e) == <<e>> \o es

\* One iteration of "for v in versions".
GenerateEntry ==
    /\ pc = "generate_rss"
    /\ v <= Len(versions)
    /\ entries' = AddEntry(entries, FeedEntry(versions[v]))
    /\ v' = v + 1
    /\ UNCHANGED <<pc, GITHUB_TOKEN, network_calls, response, repo_data, lines,
                   blame_ranges, r, line_data_map, i, current_version,
                   current_desc, current_date, current_oid, versions, feed_xml,
                   stdout, stderr, exit_code, line, version_match>>

\* rss_feed = fg.rss_str(); feed.xml is overwritten; the last two messages;
\* the interpreter exits with status 0.
WriteFeed ==
    /\ pc = "generate_rss"
    /\ v > Len(versions)
    /\ feed_xml' = [kind |-> "rss", channel |-> FeedChannel, items |-> entries]
    /\ stdout' = stdout \o <<MsgGenerated, MsgDone>>
    /\ Exit(0)
    /\ UNCHANGED <<GITHUB_TOKEN, network_calls, response, repo_data, lines,
                   blame_ranges, r, line_data_map, i, current_version,
                   current_desc, current_date, current_oid, versions, entries,
                   stderr, v, line, version_match>>

(***************************************************************************)
(* The matcher on its own: re.match applied to every line over             *)
(* LineAlphabet of at most MaxLineLen characters, and to each of them      *)
(* after "##".                                                             *)
(***************************************************************************)
LineAlphabet == {"#", " ", "\t", "1", "."}

\* re.match on the line with one more character.
MatchLine ==
    /\ pc = "re.match"
    /\ Len(line) < MaxLineLen
    /\ \E c \in LineAlphabet : line' = Append(line, c)
    /\ version_match' = VersionMatch(line')
    /\ UNCHANGED <<pc, GITHUB_TOKEN, network_calls, response, repo_data, lines,
                   blame_ranges, r, line_data_map, i, current_version,
                   current_desc, current_date, current_oid, versions, entries,
                   feed_xml, stdout, stderr, exit_code, v>>

\* re.match on the line made a level-two heading.
MatchHeading ==
    /\ pc = "re.match"
    /\ line' = <<"#", "#">> \o line
    /\ version_match' = VersionMatch(line')
    /\ pc' = "matched"
    /\ UNCHANGED <<GITHUB_TOKEN, network_calls, response, repo_data, lines,
                   blame_ranges, r, line_data_map, i, current_version,
                   current_desc, current_date, current_oid, versions, entries,
                   feed_xml, stdout, stderr, exit_code, v>>

(***************************************************************************)
(* Specifications                                                          *)
(***************************************************************************)
\* The variables a function has not reached yet.
NotStarted ==
    /\ lines = <<>>
    /\ blame_ranges = <<>>
    /\ r = 1
    /\ line_data_map = EmptyDict
    /\ i = 0
    /\ current_version = None
    /\ current_desc = <<>>
    /\ current_date = None
    /\ current_oid = None
    /\ versions = <<>>
    /\ entries = <<>>
    /\ v = 1
    /\ stderr = <<>>
    /\ exit_code = NotExited
    /\ line = <<>>
    /\ version_match = None

\* A whole run, from the start of main.
Init ==
    /\ pc = "main"
    /\ GITHUB_TOKEN \in BOOLEAN
    /\ network_calls = 0
    /\ response = NoResponse
    /\ repo_data = NoRepository
    /\ feed_xml \in {NoFile, OldFile}
    /\ stdout = <<>>
    /\ NotStarted

Next ==
    \/ MainStart
    \/ FetchNoToken
    \/ FetchPost
    \/ FetchBadStatus
    \/ FetchGraphQLErrors
    \/ FetchReturn
    \/ ParseStart
    \/ IndexRange
    \/ IndexDone
    \/ SegmentHeader
    \/ SegmentBody
    \/ SegmentSkip
    \/ SegmentReturn
    \/ SortVersions
    \/ GenerateEntry
    \/ WriteFeed

Spec == Init /\ [][Next]_vars

\* The state at the call of parse_changelog(d).
InitParse(d) ==
    /\ pc = "parse_changelog"
    /\ GITHUB_TOKEN = TRUE
    /\ network_calls = 1
    /\ response = OkResponse(d)
    /\ repo_data = d
    /\ feed_xml = NoFile
    /\ stdout = <<MsgFetching, MsgParsing>>
    /\ NotStarted

\* The index built from any blame ranges.
InitIndex ==
    \E n \in 0..MaxIndexLines :
       \E rs \in SeqsUpTo(RangesOver(n), MaxRanges) :
          InitParse(Repository([k \in 1..n |-> LineBody], rs))

NextIndex == ParseStart \/ IndexRange

SpecIndex == InitIndex /\ [][NextIndex]_vars

\* parse_changelog on any document, every line attributed or not.
InitSeg ==
    \E ls \in SeqsUpTo(SegLineSet, MaxSegLines) :
       \E rs \in LineBlames(AlternateCommit(Len(ls))) :
          InitParse(Repository(ls, rs))

NextSeg ==
    \/ ParseStart
    \/ IndexRange
    \/ IndexDone
    \/ SegmentHeader
    \/ SegmentBody
    \/ SegmentSkip
    \/ SegmentReturn

SpecSeg == InitSeg /\ [][NextSeg]_vars

\* re.match on any line.
InitLine ==
    /\ pc = "re.match"
    /\ GITHUB_TOKEN = TRUE
    /\ network_calls = 0
    /\ response = NoResponse
    /\ repo_data = NoRepository
    /\ feed_xml = NoFile
    /\ stdout = <<>>
    /\ NotStarted

NextLine == MatchLine \/ MatchHeading

SpecLine == InitLine /\ [][NextLine]_vars

(***************************************************************************)
(* Properties.  Definitions shared by the statements below.                *)
(***************************************************************************)
\* Line p (1-based) of the document is a version header.
IsHeaderAt(p) == VersionMatch(lines[p]) # None

\* The 1-based positions of the header lines, and the k-th of them.
HeaderPositions == {p \in 1..Len(lines) : IsHeaderAt(p)}

NthHeader(k) ==
    CHOOSE p \in HeaderPositions :
        Cardinality({q \in HeaderPositions : q <= p}) = k

\* The lines strictly between the k-th header and the next one (or the end).
BodyOf(k) ==
    LET from == NthHeader(k) + 1
        to == IF k < Cardinality(HeaderPositions)
              THEN NthHeader(k + 1) - 1 ELSE Len(lines)
    IN SubSeq(lines, from, to)

\* parse_changelog has returned and main has not sorted yet.
Parsed == pc = "sort"

\* The run reached its end with status 0.
Succeeded == pc = "exited" /\ exit_code = 0

\* The k >= 1 such that the k characters of l after "##" are all in W.
RunsAfterHashes(l, W) ==
    {k \in 1..(Len(l) - 2) : \A x \in 3..(2 + k) : l[x] \in W}

\* The a >= 1 such that l has a digits from position from and then a ".".
DigitsThenDot(l, from) ==
    {a \in 1..(Len(l) - from) :
        /\ \A x \in from..(from + a - 1) : l[x] \in Digits
        /\ l[from + a] = "."}

\* The c >= 1 such that l has c digits from position from and no digit after.
DigitsToEnd(l, from) ==
    {c \in 1..(Len(l) - from + 1) :
        /\ \A x \in from..(from + c - 1) : l[x] \in Digits
        /\ (from + c > Len(l) \/ l[from + c] \notin Digits)}

\* The groups digits "." digits "." digits that follow "##" and one or more
\* characters of W at the start of l: empty when l has no such start.
ShapeVersions(l, W) ==
    IF Len(l) < 2 \/ l[1] # "#" \/ l[2] # "#" THEN {}
    ELSE UNION {UNION {UNION {{
            SubSeq(l, 3 + k, 3 + k + a + 1 + b + c) :
                c \in DigitsToEnd(l, 3 + k + a + 1 + b + 1)} :
                b \in DigitsThenDot(l, 3 + k + a + 1)} :
                a \in DigitsThenDot(l, 3 + k)} :
                k \in RunsAfterHashes(l, W)}

\* The statement of C10 with W for the characters allowed after "##".
HeaderIffShape(W) ==
    /\ (version_match # None) <=> (ShapeVersions(line, W) # {})
    /\ version_match # None => version_match \in ShapeVersions(line, W)

(***************************************************************************)
(* C10 as stated: a line is a version header iff it starts with exactly    *)
(* two '#', then one or more space characters, then digits '.' digits '.'  *)
(* digits; the version is that group, the rest of the line is dropped.     *)
(***************************************************************************)
C10_HeaderIffSpaces == HeaderIffShape({" "})

(***************************************************************************)
(* C10 amended: the same with one or more whitespace characters (any       *)
(* character of the regex class \s: space, tab, ...) after the two '#'.    *)
(***************************************************************************)
C10_HeaderIffWhitespace == HeaderIffShape(Whitespace)

\* A heading with a tab after "##" and text after the version was matched.
C10_Witness ==
    /\ pc = "matched"
    /\ line = <<"#", "#", "\t", "1", ".", "1", ".", "1", ".">>
    /\ version_match = <<"1", ".", "1", ".", "1">>

IsPartition(rs, n) ==
    /\ \A k \in 1..Len(rs) :
          1 <= rs[k].startingLine /\ rs[k].startingLine <= rs[k].endingLine
              /\ rs[k].endingLine <= n
    /\ \A ln \in 1..n :
          Cardinality({k \in 1..Len(rs) :
              rs[k].startingLine <= ln /\ ln <= rs[k].endingLine}) = 1

IndexBuilt == pc = "index" /\ r > Len(blame_ranges)

(***************************************************************************)
(* C3: when the blame ranges exactly partition the N lines of the document *)
(* (1-based, inclusive, no gap, no overlap), the index maps exactly the    *)
(* zero-based positions 0..N-1, each to the {date, oid} of the one range   *)
(* r with r.startingLine - 1 <= position <= r.endingLine - 1.              *)
(***************************************************************************)
C3_IndexOfPartition ==
    IndexBuilt /\ IsPartition(blame_ranges, Len(lines)) =>
        /\ DOMAIN line_data_map = 0..(Len(lines) - 1)
        /\ \A idx \in 0..(Len(lines) - 1) :
              \A k \in 1..Len(blame_ranges) :
                 (blame_ranges[k].startingLine - 1 <= idx
                     /\ idx <= blame_ranges[k].endingLine - 1) =>
                    line_data_map[idx] =
                        [date |-> blame_ranges[k].commit.committedDate,
                         oid |-> blame_ranges[k].commit.oid]

\* Three lines split between two commits, the later range listed first.
C3_Witness ==
    /\ IndexBuilt
    /\ Len(lines) = 3
    /\ IsPartition(blame_ranges, 3)
    /\ Len(blame_ranges) = 2
    /\ blame_ranges[1].startingLine = 2
    /\ blame_ranges[1].endingLine = 3
    /\ blame_ranges[1].commit # blame_ranges[2].commit

(***************************************************************************)
(* C1: parse_changelog returns as many version records as the document has *)
(* header lines.                                                           *)
(***************************************************************************)
C1_OneRecordPerHeader ==
    Parsed => Len(versions) = Cardinality(HeaderPositions)

\* Two consecutive headers of one version end the document.
C1_Witness ==
    /\ Parsed
    /\ lines = <<LineHeaderA, LineBody, LineHeaderA, LineHeaderA>>
    /\ Len(versions) = 3

(***************************************************************************)
(* C2: the date and oid of each record are what the index holds for the    *)
(* zero-based position of the record's header line, both None when the     *)
(* index has no entry there.                                               *)
(***************************************************************************)
C2_HeaderAttribution ==
    Parsed =>
        \A k \in 1..Len(versions) :
           /\ k <= Cardinality(HeaderPositions)
           /\ LET p == NthHeader(k) - 1
              IN IF p \in DOMAIN line_data_map
                 THEN /\ versions[k].date = line_data_map[p].date
                      /\ versions[k].oid = line_data_map[p].oid
                 ELSE /\ versions[k].date = None
                      /\ versions[k].oid = None

\* An attributed header, a body line of another commit, an unattributed header.
C2_Witness ==
    /\ Parsed
    /\ lines = <<LineHeaderA, LineBody, LineHeaderB>>
    /\ DOMAIN line_data_map = {0, 1}
    /\ line_data_map[0].date = DateJan2
    /\ line_data_map[1].date = DateJan1
    /\ Len(versions) = 2
    /\ versions[1].date = DateJan2
    /\ versions[2].date = None

(***************************************************************************)
(* C4 as stated: the description lines of each record are exactly the      *)
(* source lines between its header and the next header, blank lines        *)
(* included, and the next record's version is that of the next header.     *)
(***************************************************************************)
C4_RoundTrip ==
    Parsed =>
        \A k \in 1..Len(versions) :
           /\ k <= Cardinality(HeaderPositions)
           /\ versions[k].description = JoinLines(BodyOf(k))
           /\ k < Len(versions) =>
                 versions[k + 1].version = VersionMatch(lines[NthHeader(k + 1)])

\* d is j without its leading and trailing whitespace.
IsStripOf(d, j) ==
    /\ Len(d) <= Len(j)
    /\ d = <<>> \/ (d[1] \notin Whitespace /\ d[Len(d)] \notin Whitespace)
    /\ \E a \in 0..(Len(j) - Len(d)) :
          /\ \A x \in 1..a : j[x] \in Whitespace
          /\ \A x \in (a + Len(d) + 1)..Len(j) : j[x] \in Whitespace
          /\ d = SubSeq(j, a + 1, a + Len(d))

(***************************************************************************)
(* C4 amended: the description of each record is the source lines between  *)
(* its header and the next header (or the end), joined by line breaks,     *)
(* without the leading and trailing whitespace of that block (leading and  *)
(* trailing blank lines included); the lines inside are kept as they are,  *)
(* blank ones too; the next record's version is that of the next header.   *)
(***************************************************************************)
C4_RoundTripModuloStrip ==
    Parsed =>
        \A k \in 1..Len(versions) :
           /\ k <= Cardinality(HeaderPositions)
           /\ IsStripOf(versions[k].description, JoinLines(BodyOf(k)))
           /\ k < Len(versions) =>
                 versions[k + 1].version = VersionMatch(lines[NthHeader(k + 1)])

\* A block that ends with a blank line, before a header with text after
\* its version.
C4_Witness ==
    /\ Parsed
    /\ lines = <<LineHeaderA, LineBody, LineBlank, LineHeaderB>>
    /\ Len(versions) = 2
    /\ versions[1].description = LineBody
    /\ versions[2].version = <<"2", ".", "0", ".", "7", "3">>

SegmentStepOk ==
    LET ln == lines[i + 1]
        header == VersionMatch(ln) # None
        active == current_version # None
    IN /\ i' = i + 1
       /\ SubSeq(versions', 1, Len(versions)) = versions
       /\ (~active /\ ~header) =>
             UNCHANGED <<current_version, current_desc, versions>>
       /\ (active \/ header) => current_version' # None
       /\ (active /\ ~header) =>
             /\ current_desc' = Append(current_desc, ln)
             /\ UNCHANGED <<current_version, current_date, current_oid, versions>>
       /\ header =>
             /\ current_version' = VersionMatch(ln)
             /\ current_desc' = <<>>
             /\ Len(versions') = Len(versions) + (IF active THEN 1 ELSE 0)

SegmentResultOk ==
    /\ HeaderPositions = {} => versions = <<>>
    /\ \A k \in 1..Len(versions) :
          (k + 1 <= Cardinality(HeaderPositions)
              /\ NthHeader(k + 1) = NthHeader(k) + 1) =>
             versions[k].description = <<>>

(***************************************************************************)
(* C9: the segmenter starts with no active version, where a non-header     *)
(* line is dropped; a header makes a version active and one stays active   *)
(* to the end; with an active version a non-header line is appended to the *)
(* description buffer of the version the latest header started and no      *)
(* finished record changes; no header gives no record, and a header right  *)
(* after a header gives a record with an empty description.                *)
(***************************************************************************)
C9_StickySegmenter ==
    /\ [](pc = "segment" /\ i = 0 => current_version = None)
    /\ [][pc = "segment" /\ pc' = "segment" => SegmentStepOk]_vars
    /\ [](Parsed => SegmentResultOk)

\* A dropped first line, a header right after a header, a body line.
C9_Witness ==
    /\ Parsed
    /\ lines = <<LineBody, LineHeaderA, LineHeaderB, LineBody>>
    /\ Len(versions) = 2
    /\ versions[1].description = <<>>
    /\ versions[2].description = <<"F", "i", "x", " ", "X">>

(***************************************************************************)
(* Definitions for the statements about a whole run.                       *)
(***************************************************************************)
\* The permutations of 1..n, for every number n of headers a document of the
\* whole run can have.
PermsOfSize ==
    [n \in 0..MaxFeedLines |->
        {f \in [1..n -> 1..n] : \A a, b \in 1..n : a # b => f[a] # f[b]}]

Perms(n) == PermsOfSize[n]

\* versions has been sorted.
Sorted == pc = "generate_rss" \/ Succeeded

\* The response passed the status check and the errors check.
ResponseOk == response.status_code = 200 /\ ~response.errors

\* The date a record sorts by: an absent date as the empty string.
DateKey(d) == IF d = None THEN <<>> ELSE d

\* Record x is the record of the k-th header of the document.
IsRecordOf(x, k) ==
    LET p == NthHeader(k) - 1
    IN /\ x.version = VersionMatch(lines[p + 1])
       /\ x.date = (IF p \in DOMAIN line_data_map THEN line_data_map[p].date
                    ELSE None)
       /\ x.oid = (IF p \in DOMAIN line_data_map THEN line_data_map[p].oid
                   ELSE None)
       /\ IsStripOf(x.description, JoinLines(BodyOf(k)))

\* t holds the records of the document, in ascending order of date, those of
\* equal date in document order.
IsStableDateOrder(t) ==
    LET n == Cardinality(HeaderPositions)
    IN /\ Len(t) = n
       /\ \E f \in Perms(n) :
             /\ \A k \in 1..n : IsRecordOf(t[k], f[k])
             /\ \A j, k \in 1..n :
                   j < k =>
                      /\ ~StrLess(DateKey(t[k].date), DateKey(t[j].date))
                      /\ (DateKey(t[k].date) = DateKey(t[j].date)) => f[j] < f[k]

\* Every record without a date is before every record with one.
AbsentDatesFirst(t) ==
    \A j, k \in 1..Len(t) : (t[j].date = None /\ t[k].date # None) => j < k

\* Entry e was built from record x.
IsEntryOf(e, x) ==
    /\ e.title = <<"v">> \o x.version
    /\ e.description = x.description
    /\ (e.pubDate = NoPubDate) <=> (x.date = None)

\* The feed's entries, first to last, are those of the records handled so far,
\* first to last.
EntriesInSortedOrder ==
    /\ Len(entries) = v - 1
    /\ \A k \in 1..Len(entries) : IsEntryOf(entries[k], versions[k])
    /\ Succeeded => feed_xml.items = entries /\ Len(entries) = Len(versions)

\* The feed's entries, first to last, are those of the records handled so far,
\* last to first.
EntriesInReverseOrder ==
    /\ Len(entries) = v - 1
    /\ \A k \in 1..Len(entries) :
          IsEntryOf(entries[k], versions[Len(entries) + 1 - k])
    /\ Succeeded => feed_xml.items = entries /\ Len(entries) = Len(versions)

CoveringRanges(p) ==
    {k \in 1..Len(blame_ranges) :
        blame_ranges[k].startingLine <= p /\ p <= blame_ranges[k].endingLine}

\* Entry e is what the claim asks for the header at line p (1-based).
IsEntryOfHeader(e, p) ==
    LET version == VersionMatch(lines[p])
        cover == CoveringRanges(p)
    IN /\ e.title = <<"v">> \o version
       /\ e.guid = [guid |-> e.link, permalink |-> TRUE]
       /\ IF cover = {}
          THEN /\ e.link = ReleaseUrl(version)
               /\ e.pubDate = NoPubDate
          ELSE /\ \E k \in cover : e.link = CommitUrl(blame_ranges[k].commit.oid)
               /\ e.pubDate # NoPubDate

(***************************************************************************)
(* C6: a run whose response passed the checks ends with status 0, and its  *)
(* feed has one entry per header line: for a header line no blame range    *)
(* covers, an entry without pubDate whose link and guid are the            *)
(* release-tag URL of its version; for a covered one, an entry with a      *)
(* pubDate whose link and guid are the URL of the file at the commit.      *)
(***************************************************************************)
C6_FallbackForUnattributed ==
    /\ (pc = "exited" /\ GITHUB_TOKEN /\ ResponseOk) => exit_code = 0
    /\ Succeeded =>
          LET n == Cardinality(HeaderPositions)
          IN /\ Len(feed_xml.items) = n
             /\ \E f \in Perms(n) :
                   \A k \in 1..n :
                      IsEntryOfHeader(feed_xml.items[k], NthHeader(f[k]))

\* One header of each kind, the unattributed one first in the document.
C6_Witness ==
    /\ Succeeded
    /\ lines = <<LineHeaderB, LineBody, LineHeaderA>>
    /\ DOMAIN line_data_map = {2}
    /\ Len(feed_xml.items) = 2
    /\ feed_xml.items[1].link = CommitUrl(line_data_map[2].oid)
    /\ feed_xml.items[2].link = ReleaseUrl(<<"2", ".", "0", ".", "7", "3">>)
    /\ feed_xml.items[2].pubDate = NoPubDate

FeedUntouched == feed_xml \in {NoFile, OldFile}

RunFailed == ~GITHUB_TOKEN \/ (network_calls > 0 /\ ~ResponseOk)

(***************************************************************************)
(* C7: feed.xml is written only after the credential check, the status     *)
(* check and the errors check have passed and every entry is built; with   *)
(* no credential no request is made; a run with no credential, a status    *)
(* other than 200 or an errors payload ends with a non-zero status, after  *)
(* at most one request, with feed.xml as it was.                           *)
(***************************************************************************)
C7_NoPartialSuccess ==
    /\ ~FeedUntouched =>
          /\ GITHUB_TOKEN /\ network_calls = 1 /\ ResponseOk
          /\ Len(entries) = Len(versions)
          /\ feed_xml.items = entries
          /\ Succeeded
    /\ ~GITHUB_TOKEN => network_calls = 0
    /\ network_calls <= 1
    /\ RunFailed => pc \in {"main", "fetch_changelog_blame", "response", "exited"}
    /\ (RunFailed /\ pc = "exited") => (exit_code # 0 /\ FeedUntouched)
    /\ Succeeded => ~FeedUntouched

\* A response with an errors payload ended the run; the old feed is still there.
C7_Witness ==
    /\ pc = "exited"
    /\ exit_code = 1
    /\ GITHUB_TOKEN
    /\ response.status_code = 200
    /\ response.errors
    /\ network_calls = 1
    /\ feed_xml = OldFile

Elements(q) == {q[k] : k \in 1..Len(q)}

(***************************************************************************)
(* C8: a run that fails on the credential, the status or the errors        *)
(* payload ends with a non-zero status and its message is on the error     *)
(* stream and not on standard output, which carries progress messages      *)
(* only; a run that succeeds ends with status 0 after feed.xml is written. *)
(***************************************************************************)
C8_ErrorsOnErrorStream ==
    /\ Elements(stdout) \subseteq ProgressMessages
    /\ (RunFailed /\ pc = "exited") =>
          /\ exit_code # 0
          /\ Elements(stderr) \cap ErrorMessages # {}
    /\ Succeeded => ~FeedUntouched

====
